---- MODULE Spec2Model ----
(***************************************************************************)
(* City Explorer Tours chatbot (src/city_tour.py): the per-session state   *)
(* kept in st.session_state (rate_limit_tracker, response_cache, logs),    *)
(* the chat handler chat_mode with its helpers check_rate_limit,           *)
(* cache_key, log_event and call_openai, and the admin handler admin_mode. *)
(*                                                                         *)
(* Time is the value of time.time() in whole seconds.  Successive reads of *)
(* the clock may return the same value (Python documents time.time() as    *)
(* non-decreasing with a platform dependent resolution), so the clock      *)
(* advances only by the Tick action and any number of steps may share one  *)
(* reading.                                                                *)
(*                                                                         *)
(* A script run of one session is sequential: pc is the position of the    *)
(* running chat request, "idle" between runs.  Streamlit executes the      *)
(* script from its first line on every run, so OPENAI_API_KEY and          *)
(* ADMIN_PASSWORD are read anew by every run.                              *)
(*                                                                         *)
(* The payload of a log entry that no decision of the program reads (the   *)
(* time text, the question, the usage, the error text, the traceback) is   *)
(* kept as a fixed token; kind and latency_ms are kept as computed.        *)
(***************************************************************************)
EXTENDS Integers, Sequences, FiniteSets, TLC

(***************************************************************************)
(* Configuration of src/city_tour.py:38-40, scaled down (the source has    *)
(* 10 requests per 60 seconds and a TTL of 600 seconds); the comparisons   *)
(* that use them are kept as written, and the window stays shorter than    *)
(* the TTL.                                                                *)
(***************************************************************************)
RATE_LIMIT == 2
RATE_LIMIT_WINDOW == 1
CACHE_TTL == 2

(* Bounds of the exploration: the last clock reading, the number of
   check_rate_limit calls, the number of values hash() takes. *)
MaxTime == 3
MaxReq == 3
NumHash == 2

None == "None"

Identities == {"u1", "u2"}

(* Raw texts of the question box: sequences of characters, " " is whitespace. *)
Questions == { <<"a">>, <<" ", "a">>, <<"b">>, <<" ">> }

(* Answers the provider may produce; the empty text is one of them. *)
Answers == { "", "ans1" }

(* Values of the OPENAI_API_KEY secret: absent, malformed, well-formed. *)
ApiKeys == { <<>>, <<"k", "e", "y">>, <<"s", "k", "-", "1">> }

(* Values of the ADMIN_PASSWORD secret and of the password box. *)
Passwords == { "", "pw" }

(* What openai.ChatCompletion.create does: returns or raises. *)
ProviderOutcomes == { "ok", "RateLimitError", "AuthenticationError", "Exception" }

VARIABLES
    now,                 \* the clock read by time.time()
    user_id,             \* st.session_state.user_id
    hashOf,              \* the process's str hash (randomised per process)
    rate_limit_tracker,  \* st.session_state.rate_limit_tracker
    response_cache,      \* st.session_state.response_cache
    logs,                \* st.session_state.logs
    pc,                  \* position of the running chat request
    OPENAI_API_KEY,      \* module global, read by the run at line 35
    question,            \* local of chat_mode: the text submitted
    key,                 \* local of chat_mode: cache key
    start,               \* local of call_openai: time the call started
    content,             \* local of chat_mode: answer returned by call_openai
    ui,                  \* what the latest script run has rendered
    admits,              \* history: <<time, result>> of every check_rate_limit call
    provider_calls,      \* history: number of provider invocations
    at_entry             \* history: logs, provider_calls and response_cache
                         \* when the running request was submitted

vars == << now, user_id, hashOf, rate_limit_tracker, response_cache, logs, pc,
           OPENAI_API_KEY, question, key, start, content, ui, admits,
           provider_calls, at_entry >>

(* The variables a script run leaves alone unless it says otherwise. *)
session == << user_id, hashOf >>
locals == << OPENAI_API_KEY, question, key, start, content >>
history == << admits, provider_calls, at_entry >>

----------------------------------------------------------------------------
(* str.strip() *)
RECURSIVE lstrip(_)
lstrip(s) == IF s = <<>> THEN s
             ELSE IF Head(s) = " " THEN lstrip(Tail(s)) ELSE s

RECURSIVE rstrip(_)
rstrip(s) == IF s = <<>> THEN s
             ELSE IF s[Len(s)] = " " THEN rstrip(SubSeq(s, 1, Len(s) - 1)) ELSE s

strip(s) == rstrip(lstrip(s))

Normalized == { strip(q) : q \in Questions } \ { <<>> }

(* str.startswith *)
startswith(s, p) == Len(s) >= Len(p) /\ SubSeq(s, 1, Len(p)) = p

(* cache_key: f"q::{hash(question)}" *)
cache_key(q) == << "q::", hashOf[q] >>

----------------------------------------------------------------------------
(* Mutant: a timestamp exactly one window old is dropped. *)
InWindow_Strict(t, n) == n - t < RATE_LIMIT_WINDOW

(* Mutant: the window test made with the cache's TTL. *)
InWindow_CacheTtl(t, n) == n - t <= CACHE_TTL

(* check_rate_limit, line 135: the test a timestamp passes to be kept *)
InWindow(t, n) == n - t <= RATE_LIMIT_WINDOW

(* Mutant: nothing is removed from the list. *)
Purged_Nothing(ts, n) == ts

(* check_rate_limit, line 135 *)
Purged(ts, n) == SelectSeq(ts, LAMBDA t : InWindow(t, n))

(* Mutant: the limit compared with > . *)
OverLimit_Exclusive(ts) == Len(ts) > RATE_LIMIT

(* check_rate_limit, line 136 *)
OverLimit(ts) == Len(ts) >= RATE_LIMIT

(* Mutant: an entry exactly CACHE_TTL old is taken for expired. *)
CacheHit_Strict(d, k, n) == k \in DOMAIN d /\ n - d[k].time < CACHE_TTL

(* chat_mode, lines 218-219: the entry exists and is not older than the TTL *)
CacheHit(d, k, n) == k \in DOMAIN d /\ n - d[k].time <= CACHE_TTL

(* Mutant: only the absence of the key is tested. *)
KeyInvalid_EmptyOnly(k) == k = <<>>

(* chat_mode, line 225 *)
KeyInvalid(k) ==
    k = <<>> \/ ~ (startswith(k, <<"s", "k", "-">>)
                   \/ startswith(k, <<"s", "k", "-", "p", "r", "o", "j", "-">>))

(* d[k] = v *)
Put(d, k, v) == [ x \in DOMAIN d \cup {k} |-> IF x = k THEN v ELSE d[x] ]

(* Mutant: the entry is put in front of the list. *)
log_event_Prepend(l, kind, fields) ==
    << [ time |-> "utcnow", kind |-> kind ] @@ fields >> \o l

(* log_event: the entry built at lines 145-149 is appended at line 150 *)
log_event(l, kind, fields) == Append(l, [ time |-> "utcnow", kind |-> kind ] @@ fields)

NoUi == [ kind |-> "none", content |-> None ]

NoEntry == [ logs |-> <<>>, calls |-> 0, cache |-> <<>> ]

----------------------------------------------------------------------------
Init ==
    /\ now = 0
    /\ user_id = "u1"       \* str(uuid.uuid4()): an opaque token, all alike
    /\ hashOf \in [ Normalized -> 1..NumHash ]
    /\ rate_limit_tracker = [ u \in Identities |-> <<>> ]
    /\ response_cache = << >>
    /\ logs = << >>
    /\ pc = "idle"
    /\ OPENAI_API_KEY = <<>>
    /\ question = None
    /\ key = None
    /\ start = None
    /\ content = None
    /\ ui = NoUi
    /\ admits = << >>
    /\ provider_calls = 0
    /\ at_entry = NoEntry

(* The clock advances. *)
Tick ==
    /\ now < MaxTime
    /\ now' = now + 1
    /\ UNCHANGED << session, rate_limit_tracker, response_cache, logs, pc,
                    locals, ui, history >>

(* The run ends.  Its locals are dead, and so is the key read at line 35,
   which the next run reads again before using it. *)
Return == /\ pc' = "idle"
          /\ OPENAI_API_KEY' = <<>>
          /\ question' = None
          /\ key' = None
          /\ start' = None
          /\ content' = None
          /\ at_entry' = NoEntry

(* chat_mode, line 210: the button was not pressed or the text is blank. *)
ChatBlank(q) ==
    /\ pc = "idle"
    /\ strip(q) = <<>>
    /\ ui' = NoUi
    /\ UNCHANGED << now, session, rate_limit_tracker, response_cache, logs, pc,
                    locals, history >>

(* Mutant: the timestamp is appended before the limit is tested. *)
ChatDenied_Records(q) ==
    /\ pc = "idle"
    /\ strip(q) # <<>>
    /\ Len(admits) < MaxReq
    /\ LET kept == Purged(rate_limit_tracker[user_id], now) IN
         /\ Len(kept) >= RATE_LIMIT
         /\ rate_limit_tracker' =
               [ rate_limit_tracker EXCEPT ![user_id] = Append(kept, now) ]
    /\ admits' = Append(admits, << now, FALSE >>)
    /\ ui' = [ kind |-> "warning_too_many_requests", content |-> None ]
    /\ Return
    /\ UNCHANGED << now, session, response_cache, logs, provider_calls >>

(* Mutant: the return after the warning is missing. *)
ChatDenied_FallsThrough(q) ==
    /\ pc = "idle"
    /\ strip(q) # <<>>
    /\ Len(admits) < MaxReq
    /\ LET kept == Purged(rate_limit_tracker[user_id], now) IN
         /\ Len(kept) >= RATE_LIMIT
         /\ rate_limit_tracker' = [ rate_limit_tracker EXCEPT ![user_id] = kept ]
    /\ admits' = Append(admits, << now, FALSE >>)
    /\ at_entry' = [ logs |-> logs, calls |-> provider_calls,
                     cache |-> response_cache ]
    /\ ui' = [ kind |-> "warning_too_many_requests", content |-> None ]
    /\ pc' = "cache"
    /\ question' = q
    /\ UNCHANGED << now, session, response_cache, logs, OPENAI_API_KEY, key,
                    start, content, provider_calls >>

(* chat_mode, lines 210-214 with check_rate_limit returning False. *)
ChatDenied(q) ==
    /\ pc = "idle"
    /\ strip(q) # <<>>
    /\ Len(admits) < MaxReq
    /\ LET kept == Purged(rate_limit_tracker[user_id], now) IN
         /\ OverLimit(kept)
         /\ rate_limit_tracker' = [ rate_limit_tracker EXCEPT ![user_id] = kept ]
    /\ admits' = Append(admits, << now, FALSE >>)
    /\ ui' = [ kind |-> "warning_too_many_requests", content |-> None ]
    /\ Return
    /\ UNCHANGED << now, session, response_cache, logs, provider_calls >>

(* Line 35 and chat_mode, lines 210-212, with check_rate_limit returning True. *)
ChatAdmitted(q, k) ==
    /\ pc = "idle"
    /\ strip(q) # <<>>
    /\ Len(admits) < MaxReq
    /\ LET kept == Purged(rate_limit_tracker[user_id], now) IN
         /\ ~ OverLimit(kept)
         /\ rate_limit_tracker' =
               [ rate_limit_tracker EXCEPT ![user_id] = Append(kept, now) ]
    /\ admits' = Append(admits, << now, TRUE >>)
    /\ at_entry' = [ logs |-> logs, calls |-> provider_calls,
                     cache |-> response_cache ]
    /\ ui' = NoUi
    /\ pc' = "cache"
    /\ OPENAI_API_KEY' = k
    /\ question' = q
    /\ UNCHANGED << now, session, response_cache, logs, key, start, content,
                    provider_calls >>

(* Mutant: a hit is logged as a success. *)
CacheServe_Logs ==
    /\ pc = "cache"
    /\ LET k == cache_key(strip(question)) IN
         /\ CacheHit(response_cache, k, now)
         /\ ui' = [ kind |-> "served_from_cache",
                    content |-> response_cache[k].content ]
    /\ logs' = log_event(logs, "success", [ question |-> "question" ])
    /\ Return
    /\ UNCHANGED << now, session, rate_limit_tracker, response_cache,
                    admits, provider_calls >>

(* Mutant: a hit gives the slot of the window back. *)
CacheServe_Refunds ==
    /\ pc = "cache"
    /\ LET k == cache_key(strip(question)) IN
         /\ CacheHit(response_cache, k, now)
         /\ ui' = [ kind |-> "served_from_cache",
                    content |-> response_cache[k].content ]
    /\ rate_limit_tracker' =
          [ rate_limit_tracker EXCEPT ![user_id] =
              SubSeq(@, 1, Len(@) - 1) ]
    /\ Return
    /\ UNCHANGED << now, session, response_cache, logs, admits,
                    provider_calls >>

(* chat_mode, lines 217-222, cache hit. *)
CacheServe ==
    /\ pc = "cache"
    /\ LET k == cache_key(strip(question)) IN
         /\ CacheHit(response_cache, k, now)
         /\ ui' = [ kind |-> "served_from_cache",
                    content |-> response_cache[k].content ]
    /\ Return
    /\ UNCHANGED << now, session, rate_limit_tracker, response_cache, logs,
                    admits, provider_calls >>

(* chat_mode, lines 217-219, cache miss. *)
CacheMiss ==
    /\ pc = "cache"
    /\ ~ CacheHit(response_cache, cache_key(strip(question)), now)
    /\ key' = cache_key(strip(question))
    /\ pc' = "key"
    /\ UNCHANGED << now, session, rate_limit_tracker, response_cache, logs,
                    OPENAI_API_KEY, question, start, content, ui, history >>

(* chat_mode, lines 225-228. *)
MissingKey ==
    /\ pc = "key"
    /\ KeyInvalid(OPENAI_API_KEY)
    /\ ui' = [ kind |-> "error_invalid_key", content |-> None ]
    /\ logs' = log_event(logs, "missing_key", [ question |-> "question" ])
    /\ Return
    /\ UNCHANGED << now, session, rate_limit_tracker, response_cache, admits,
                    provider_calls >>

(* chat_mode, lines 231-233 and call_openai, lines 154-157: the request is sent. *)
CallProvider ==
    /\ pc = "key"
    /\ ~ KeyInvalid(OPENAI_API_KEY)
    /\ start' = now
    /\ provider_calls' = provider_calls + 1
    /\ pc' = "wait"
    /\ UNCHANGED << now, session, rate_limit_tracker, response_cache, logs,
                    OPENAI_API_KEY, question, key, content, ui, admits,
                    at_entry >>

(* math.floor((time.time() - start) * 1000) *)
latency_ms == (now - start) * 1000

(* call_openai, lines 166-170: the provider answered. *)
ProviderOk(a) ==
    /\ pc = "wait"
    /\ logs' = log_event(logs, "success",
                         [ question |-> "question", latency_ms |-> latency_ms,
                           usage |-> "usage" ])
    /\ content' = a
    /\ pc' = "store"
    /\ UNCHANGED << now, session, rate_limit_tracker, response_cache,
                    OPENAI_API_KEY, question, key, start, ui, history >>

(* Mutant: the handler of Exception comes first and takes every class. *)
FailureKind_AllGeneric(e) == "error"

(* The kind logged for each exception class, call_openai lines 171-181. *)
FailureKind(e) == CASE e = "RateLimitError" -> "rate_limit"
                    [] e = "AuthenticationError" -> "auth_error"
                    [] OTHER -> "error"

(* The message shown for each exception class, chat_mode lines 237-243. *)
FailureUi(e) == CASE e = "RateLimitError" -> "error_provider_busy"
                  [] e = "AuthenticationError" -> "error_authentication"
                  [] OTHER -> "error_something_went_wrong"

(* Mutant: a failed call is logged and made again. *)
ProviderFail_Retries(e) ==
    /\ pc = "wait"
    /\ provider_calls < 2 * MaxReq
    /\ logs' = log_event(logs, FailureKind(e),
                         [ question |-> "question", error |-> "error",
                           latency_ms |-> latency_ms ])
    /\ start' = now
    /\ provider_calls' = provider_calls + 1
    /\ UNCHANGED << now, session, rate_limit_tracker, response_cache, pc,
                    OPENAI_API_KEY, question, key, content, ui, admits,
                    at_entry >>

(* Mutant: the cache is written whether or not the call returned. *)
ProviderFail_Caches(e) ==
    /\ pc = "wait"
    /\ logs' = log_event(logs, FailureKind(e),
                         [ question |-> "question", error |-> "error",
                           latency_ms |-> latency_ms ])
    /\ response_cache' = Put(response_cache, key,
                             [ content |-> "", time |-> now ])
    /\ ui' = [ kind |-> FailureUi(e), content |-> None ]
    /\ Return
    /\ UNCHANGED << now, session, rate_limit_tracker, admits, provider_calls >>

(* call_openai, lines 171-182 and chat_mode, lines 237-243: the call raised. *)
ProviderFail(e) ==
    /\ pc = "wait"
    /\ logs' = log_event(logs, FailureKind(e),
                         [ question |-> "question", error |-> "error",
                           latency_ms |-> latency_ms ])
    /\ response_cache' = response_cache
    /\ ui' = [ kind |-> FailureUi(e), content |-> None ]
    /\ Return
    /\ UNCHANGED << now, session, rate_limit_tracker, admits, provider_calls >>

(* chat_mode, lines 234-236. *)
StoreAnswer ==
    /\ pc = "store"
    /\ ui' = [ kind |-> "answer", content |-> content ]
    /\ response_cache' = Put(response_cache, key,
                             [ content |-> content, time |-> now ])
    /\ Return
    /\ UNCHANGED << now, session, rate_limit_tracker, logs, admits,
                    provider_calls >>

----------------------------------------------------------------------------
RECURSIVE SumSeq(_)
SumSeq(s) == IF s = <<>> THEN 0 ELSE Head(s) + SumSeq(Tail(s))

HasLatency(l) == "latency_ms" \in DOMAIN l

(* admin_mode, line 259 *)
Latencies(ls) == LET withLat == SelectSeq(ls, HasLatency)
                 IN  [ i \in 1..Len(withLat) |-> withLat[i].latency_ms ]

(* admin_mode, lines 258-261: the mean as the pair <<sum, count>>, the empty
   tuple for None (there is no latency). *)
AvgLatency(ls) == LET lat == Latencies(ls)
                  IN  IF lat # <<>> THEN << SumSeq(lat), Len(lat) >> ELSE <<>>

(* f"{x:.0f}" of x = s / n with n > 0: round half to even. *)
Format0f(s, n) == LET q == s \div n
                      r == s % n
                  IN  IF 2 * r > n \/ (2 * r = n /\ q % 2 = 1) THEN q + 1 ELSE q

(* Mutant: a zero is shown where there is nothing to average. *)
ShownLatency_ZeroDefault(avg) ==
    IF avg # <<>> /\ avg[1] # 0 THEN << Format0f(avg[1], avg[2]) >> ELSE << 0 >>

(* admin_mode, line 268: avg_latency is tested for truth, None and 0.0 are
   false.  The text shown is <<number>>, or <<>> for "n/a". *)
ShownLatency(avg) ==
    IF avg # <<>> /\ avg[1] # 0 THEN << Format0f(avg[1], avg[2]) >> ELSE <<>>

IsSuccess(l) == l.kind = "success"

IsError(l) == l.kind \in { "error", "auth_error", "rate_limit" }

(* admin_mode, lines 249-253: the password is set and the one typed differs. *)
AdminLocked(ADMIN_PASSWORD, pw) ==
    /\ pc = "idle"
    /\ ADMIN_PASSWORD # ""
    /\ pw # ADMIN_PASSWORD
    /\ ui' = [ kind |-> "info_enter_password", content |-> None ]
    /\ UNCHANGED << now, session, rate_limit_tracker, response_cache, logs, pc,
                    locals, history >>

(* admin_mode, lines 255-280. *)
AdminReport(ADMIN_PASSWORD, pw) ==
    /\ pc = "idle"
    /\ ADMIN_PASSWORD = "" \/ pw = ADMIN_PASSWORD
    /\ ui' = [ kind |-> "metrics",
               content |-> None,
               total_requests |-> Len(SelectSeq(logs, IsSuccess)),
               avg_latency |-> ShownLatency(AvgLatency(logs)),
               recent_errors |-> Len(SelectSeq(logs, IsError)),
               shown |-> logs,
               no_logs_yet |-> (logs = <<>>),
               download |-> logs ]
    /\ UNCHANGED << now, session, rate_limit_tracker, response_cache, logs, pc,
                    locals, history >>

Next ==
    \/ Tick
    \/ \E q \in Questions : ChatBlank(q) \/ ChatDenied(q)
    \/ \E q \in Questions, k \in ApiKeys : ChatAdmitted(q, k)
    \/ CacheServe
    \/ CacheMiss
    \/ MissingKey
    \/ CallProvider
    \/ \E a \in Answers : ProviderOk(a)
    \/ \E e \in ProviderOutcomes \ {"ok"} : ProviderFail(e)
    \/ StoreAnswer
    \/ \E ap, pw \in Passwords : AdminLocked(ap, pw) \/ AdminReport(ap, pw)

Spec == Init /\ [][Next]_vars
----------------------------------------------------------------------------
(* Reading the histories. *)
CallTime(i) == admits[i][1]
Admitted(i) == admits[i][2]

(* The step is a call of check_rate_limit. *)
RateChecked == Len(admits') = Len(admits) + 1

LastResult == admits'[Len(admits')][2]

IsPrefix(s, t) == Len(s) <= Len(t) /\ SubSeq(t, 1, Len(s)) = s

(* The running request ends in this step and was not served from the cache. *)
EndsUncached == pc \in { "key", "wait", "store" } /\ pc' = "idle"

(* The kind of log entry that belongs to each outcome shown to the user. *)
KindOfOutcome(u) == CASE u = "answer" -> "success"
                      [] u = "error_invalid_key" -> "missing_key"
                      [] u = "error_provider_busy" -> "rate_limit"
                      [] u = "error_authentication" -> "auth_error"
                      [] u = "error_something_went_wrong" -> "error"
                      [] OTHER -> "no entry"

----------------------------------------------------------------------------
(* C1: when a call of check_rate_limit finds no timestamp of the identity
   still in the window, and it and the next RATE_LIMIT calls all fall within
   RATE_LIMIT_WINDOW of it, exactly RATE_LIMIT of these RATE_LIMIT + 1 calls
   return True and one returns False, whatever their spacing. *)
EmptyBefore(i) ==
    \A j \in 1..(i - 1) : Admitted(j) => CallTime(i) - CallTime(j) > RATE_LIMIT_WINDOW

C1_BurstAdmitsExactlyLimit ==
    \A i \in 1..Len(admits) :
        ( /\ EmptyBefore(i)
          /\ i + RATE_LIMIT <= Len(admits)
          /\ CallTime(i + RATE_LIMIT) - CallTime(i) <= RATE_LIMIT_WINDOW )
        => /\ Cardinality({ j \in i..(i + RATE_LIMIT) : Admitted(j) }) = RATE_LIMIT
           /\ Cardinality({ j \in i..(i + RATE_LIMIT) : ~ Admitted(j) }) = 1

(* RATE_LIMIT + 1 calls spread over a whole window, the last one denied. *)
C1_Witness ==
    /\ Len(admits) = RATE_LIMIT + 1
    /\ CallTime(RATE_LIMIT + 1) - CallTime(1) = RATE_LIMIT_WINDOW
    /\ ~ Admitted(RATE_LIMIT + 1)

(* C2 as stated: an identity with RATE_LIMIT timestamps recorded, called
   again when RATE_LIMIT_WINDOW or more has passed since its last call, is
   admitted. *)
Exhausted == Len(rate_limit_tracker[user_id]) >= RATE_LIMIT

C2_AdmittedAtWindowAge ==
    [][ ( /\ RateChecked
          /\ Exhausted
          /\ now - CallTime(Len(admits)) >= RATE_LIMIT_WINDOW )
        => LastResult ]_vars

(* C2 amended: an identity with RATE_LIMIT timestamps recorded, called again
   when more than RATE_LIMIT_WINDOW has passed since its last call, is
   admitted. *)
C2_AdmittedAfterWindow ==
    [][ ( /\ RateChecked
          /\ Exhausted
          /\ now - CallTime(Len(admits)) > RATE_LIMIT_WINDOW )
        => LastResult ]_vars

(* The limit was used up inside one window and the next call, made more than
   a window after the last of them, was admitted. *)
C2_Witness ==
    /\ Len(admits) >= RATE_LIMIT + 1
    /\ LET n == Len(admits) IN
         /\ \A j \in 1..RATE_LIMIT : Admitted(n - j)
         /\ CallTime(n - 1) - CallTime(n - RATE_LIMIT) <= RATE_LIMIT_WINDOW
         /\ CallTime(n) - CallTime(n - 1) > RATE_LIMIT_WINDOW
         /\ Admitted(n)
(* C3: the entry written for a key holds the answer and the time of writing,
   and a lookup of a key that has an entry serves exactly its content when
   now - time <= CACHE_TTL and serves nothing from the cache when
   now - time > CACHE_TTL. *)
C3_FreshServedStaleMissed ==
    [][ /\ (pc = "store" /\ pc' # "store")
           => response_cache'[key] = [ content |-> content, time |-> now ]
        /\ (pc = "cache" /\ pc' # "cache")
           => LET k == cache_key(strip(question)) IN
                k \in DOMAIN response_cache
                => IF now - response_cache[k].time <= CACHE_TTL
                   THEN /\ pc' = "idle"
                        /\ ui' = [ kind |-> "served_from_cache",
                                   content |-> response_cache[k].content ]
                   ELSE /\ pc' = "key"
                        /\ ui'.kind # "served_from_cache" ]_vars

(* An answer was served from an entry exactly CACHE_TTL old. *)
C3_Witness ==
    /\ pc = "idle"
    /\ ui.kind = "served_from_cache"
    /\ Len(admits) > 0
    /\ \E k \in DOMAIN response_cache :
          /\ CallTime(Len(admits)) - response_cache[k].time = CACHE_TTL
          /\ ui.content = response_cache[k].content

(* C4: two questions have the same cache key exactly when their stripped
   texts are equal. *)
C4_KeyIffSameText ==
    \A q1, q2 \in Questions :
        (strip(q1) # <<>> /\ strip(q2) # <<>>)
        => (cache_key(strip(q1)) = cache_key(strip(q2)) <=> strip(q1) = strip(q2))

(* C5: a request that was admitted and not served from the cache ends with
   exactly one entry more in the log than when it was submitted, and the kind
   of that entry is the one of the outcome shown. *)
C5_OneRecordPerRequest ==
    [][ EndsUncached
        => /\ Len(logs') = Len(at_entry.logs) + 1
           /\ IsPrefix(at_entry.logs, logs')
           /\ KindOfOutcome(ui'.kind) # "no entry"
           /\ logs'[Len(logs')].kind = KindOfOutcome(ui'.kind) ]_vars

(* A successful request and then one that failed authentication, one entry
   each. *)
C5_Witness ==
    /\ pc = "idle"
    /\ ui.kind = "error_authentication"
    /\ Len(logs) = 2
    /\ logs[1].kind = "success"
    /\ logs[2].kind = "auth_error"

(* C6: a request denied by check_rate_limit ends with the too-many-requests
   outcome and with one more entry in the log. *)
C6_DenialIsLogged ==
    [][ (RateChecked /\ ~ LastResult)
        => /\ pc' = "idle"
           /\ ui'.kind = "warning_too_many_requests"
           /\ Len(logs') = Len(logs) + 1 ]_vars

(* C7: the step in which check_rate_limit denies a request ends the run,
   leaves the cache as it is and calls no provider. *)
C7_DenialTouchesNothing ==
    [][ (RateChecked /\ ~ LastResult)
        => /\ pc' = "idle"
           /\ response_cache' = response_cache
           /\ provider_calls' = provider_calls ]_vars

(* A request was denied while the cache held an answer. *)
C7_Witness ==
    /\ pc = "idle"
    /\ ui.kind = "warning_too_many_requests"
    /\ response_cache # << >>

(* C8: a request that reaches the key check with a key that is absent or does
   not begin with "sk-" ends there with the invalid-key outcome, exactly one
   entry more in the log than at submission, of kind missing_key, no provider
   call since submission and the cache as at submission. *)
WellFormed(k) == Len(k) >= 3 /\ k[1] = "s" /\ k[2] = "k" /\ k[3] = "-"

C8_MissingKeyEndsLocally ==
    [][ (pc = "key" /\ pc' # "key" /\ ~ WellFormed(OPENAI_API_KEY))
        => /\ pc' = "idle"
           /\ ui'.kind = "error_invalid_key"
           /\ Len(logs') = Len(at_entry.logs) + 1
           /\ IsPrefix(at_entry.logs, logs')
           /\ logs'[Len(logs')].kind = "missing_key"
           /\ provider_calls' = at_entry.calls
           /\ response_cache' = at_entry.cache ]_vars

(* A request that missed a cache holding an answer ended at the key check. *)
C8_Witness ==
    /\ pc = "idle"
    /\ ui.kind = "error_invalid_key"
    /\ response_cache # << >>
    /\ provider_calls > 0
    /\ logs[Len(logs)].kind = "missing_key"

(* C9: the cache changes only at the end of a request whose provider call
   returned, and then by the entry of the returned answer under the request's
   key; a request whose provider call raised ends with one failure entry more
   in the log and the cache as at submission. *)
C9_CacheWrittenOnlyOnSuccess ==
    [][ /\ (response_cache' # response_cache)
           => /\ pc = "store"
              /\ Len(logs) = Len(at_entry.logs) + 1
              /\ logs[Len(logs)].kind = "success"
              /\ provider_calls = at_entry.calls + 1
              /\ DOMAIN response_cache' = DOMAIN at_entry.cache \cup { key }
              /\ response_cache'[key] = [ content |-> content, time |-> now ]
              /\ \A k \in DOMAIN at_entry.cache \ { key } :
                    response_cache'[k] = at_entry.cache[k]
        /\ (pc = "wait" /\ pc' = "idle")
           => /\ Len(logs') = Len(at_entry.logs) + 1
              /\ IsPrefix(at_entry.logs, logs')
              /\ logs'[Len(logs')].kind \in { "rate_limit", "auth_error", "error" }
              /\ response_cache' = at_entry.cache ]_vars

(* A provider call failed while the cache held an answer. *)
C9_Witness ==
    /\ pc = "idle"
    /\ ui.kind \in { "error_provider_busy", "error_authentication",
                     "error_something_went_wrong" }
    /\ response_cache # << >>
    /\ logs # << >>
    /\ logs[Len(logs)].kind \in { "rate_limit", "auth_error", "error" }

(* C10: in every step the log before the step is a prefix of the log after
   it. *)
C10_LogAppendOnly == [][ IsPrefix(logs, logs') ]_vars

(* The admin report and the export were produced from a log of two entries
   of different kinds. *)
C10_Witness ==
    /\ ui.kind = "metrics"
    /\ Len(logs) = 2
    /\ logs[1].kind # logs[2].kind
    /\ ui.download = logs
(* C11: the report made from an empty log shows 0 successful requests, 0
   errors and no mean latency ("n/a"), and it is produced: no mean is taken
   over zero latencies. *)
C11_EmptyLogReport ==
    (ui.kind = "metrics" /\ ui.shown = << >>)
    => /\ ui.total_requests = 0
       /\ ui.recent_errors = 0
       /\ ui.avg_latency = << >>
       /\ ui.no_logs_yet

(* The report was made from the empty log and shows "n/a". *)
C11_Witness ==
    /\ ui.kind = "metrics"
    /\ ui.shown = << >>
    /\ ui.download = << >>
    /\ ui.avg_latency = << >>
    /\ logs = << >>

(* C12: the provider is invoked at most once per admitted request: while a
   request runs and when it ends at most one call was made since it was
   submitted, over the whole session there are no more calls than admitted
   requests, and a request whose call raised ends with exactly one entry
   more in the log and exactly one call made. *)
AdmittedCount == Cardinality({ i \in 1..Len(admits) : Admitted(i) })

C12_NoRetry ==
    [][ /\ provider_calls' <= AdmittedCount'
        /\ (pc' # "idle") => provider_calls' <= at_entry'.calls + 1
        /\ (pc = "wait" /\ pc' # "wait")
           => /\ provider_calls' = at_entry.calls + 1
              /\ Len(logs') = Len(at_entry.logs) + 1
              /\ pc' \in { "idle", "store" } ]_vars

(* Two requests in a row were sent to the provider and failed: two calls,
   two entries. *)
C12_Witness ==
    /\ pc = "idle"
    /\ provider_calls = 2
    /\ Len(logs) = 2
    /\ IsError(logs[1])
    /\ IsError(logs[2])
    /\ AdmittedCount = 2
(* C13: check_rate_limit returns True exactly when fewer than RATE_LIMIT of
   the timestamps recorded by earlier admitted calls satisfy
   now - t <= RATE_LIMIT_WINDOW; a timestamp exactly RATE_LIMIT_WINDOW old
   counts, an older one does not. *)
RecordedInWindow ==
    { j \in 1..Len(admits) : Admitted(j) /\ now - CallTime(j) <= RATE_LIMIT_WINDOW }

C13_AdmitIffBelowLimit ==
    [][ RateChecked => (LastResult <=> Cardinality(RecordedInWindow) < RATE_LIMIT) ]_vars

(* Three admitted calls: at the third the second is exactly one window old
   and counts, the first is older and does not. *)
C13_Witness ==
    /\ Len(admits) = 3
    /\ \A j \in 1..3 : Admitted(j)
    /\ CallTime(2) - CallTime(1) <= RATE_LIMIT_WINDOW
    /\ CallTime(3) - CallTime(2) = RATE_LIMIT_WINDOW
    /\ CallTime(3) - CallTime(1) > RATE_LIMIT_WINDOW

(* C14 as stated: in every state every timestamp of every identity is within
   RATE_LIMIT_WINDOW of the clock, and the sequence is non-decreasing. *)
Chronological(ts) == \A i \in 1..(Len(ts) - 1) : ts[i] <= ts[i + 1]

C14_AlwaysInsideWindow ==
    \A u \in Identities :
        /\ \A i \in 1..Len(rate_limit_tracker[u]) :
              now - rate_limit_tracker[u][i] <= RATE_LIMIT_WINDOW
        /\ Chronological(rate_limit_tracker[u])

(* C14 amended: in every state every timestamp of every identity is within
   RATE_LIMIT_WINDOW of the time of the identity's latest check_rate_limit
   call, and the sequence is non-decreasing. *)
C14_InsideWindowOfLastCheck ==
    \A u \in Identities :
        /\ \A i \in 1..Len(rate_limit_tracker[u]) :
              /\ Len(admits) > 0
              /\ CallTime(Len(admits)) - rate_limit_tracker[u][i] <= RATE_LIMIT_WINDOW
        /\ Chronological(rate_limit_tracker[u])

(* The third call removed the timestamp of the first and kept the second. *)
C14_Witness ==
    /\ Len(admits) = 3
    /\ \A j \in 1..3 : Admitted(j)
    /\ CallTime(1) < CallTime(2)
    /\ CallTime(2) < CallTime(3)
    /\ rate_limit_tracker[user_id] = << CallTime(2), CallTime(3) >>

(* C15: a call of check_rate_limit that returns False leaves, for its
   identity, exactly the earlier timestamps with
   now - t <= RATE_LIMIT_WINDOW, in their order, and no timestamp of its
   own; the other identities are left alone. *)
C15_DenialRecordsNothing ==
    [][ (RateChecked /\ ~ LastResult)
        => /\ rate_limit_tracker'[user_id]
                = SelectSeq(rate_limit_tracker[user_id],
                            LAMBDA t : now - t <= RATE_LIMIT_WINDOW)
           /\ \A u \in Identities \ { user_id } :
                 rate_limit_tracker'[u] = rate_limit_tracker[u] ]_vars

(* A call was denied at a time later than every timestamp kept. *)
C15_Witness ==
    /\ Len(admits) > 0
    /\ ~ Admitted(Len(admits))
    /\ Len(rate_limit_tracker[user_id]) = RATE_LIMIT
    /\ \A i \in 1..RATE_LIMIT :
          rate_limit_tracker[user_id][i] < CallTime(Len(admits))
(* C16: when the entry for the question's key is present and not older than
   CACHE_TTL, the request ends with the cached answer, without a provider
   call, with the cache as it was (the entry's time included) and with the
   log as it was when the request began. *)
C16_HitTouchesNothing ==
    [][ LET k == cache_key(strip(question)) IN
        ( /\ pc = "cache"
          /\ pc' # pc
          /\ k \in DOMAIN response_cache
          /\ now - response_cache[k].time <= CACHE_TTL )
        => /\ pc' = "idle"
           /\ ui'.kind = "served_from_cache"
           /\ ui'.content = response_cache[k].content
           /\ provider_calls' = at_entry.calls
           /\ response_cache' = response_cache
           /\ response_cache' = at_entry.cache
           /\ logs' = logs
           /\ logs' = at_entry.logs ]_vars

(* The second of two admitted requests was served from an entry stored
   before it began: one provider call and one log entry for the two. *)
C16_Witness ==
    /\ pc = "idle"
    /\ ui.kind = "served_from_cache"
    /\ Len(admits) = 2
    /\ Admitted(1)
    /\ Admitted(2)
    /\ Len(logs) = 1
    /\ IsSuccess(logs[1])
    /\ provider_calls = 1
    /\ \E k \in DOMAIN response_cache :
          /\ response_cache[k].content = ui.content
          /\ response_cache[k].time < CallTime(Len(admits))

(* C18: the report shows a number, the mean of the latencies, exactly when
   some record of the log carries a latency, and "n/a" only when none does,
   also when every latency is 0 ms. *)
C18_MeanShownIffLatency ==
    (ui.kind = "metrics")
    => LET withLat == { i \in 1..Len(ui.download) :
                          "latency_ms" \in DOMAIN ui.download[i] }
       IN  /\ (withLat # {}) <=> (ui.avg_latency # << >>)
           /\ (withLat # {})
              => \E m \in 0..(MaxTime * 1000) :
                    /\ ui.avg_latency = << m >>
                    /\ LET total == SumSeq([ i \in 1..Len(ui.download) |->
                                    IF i \in withLat
                                    THEN ui.download[i].latency_ms ELSE 0 ])
                           n == Cardinality(withLat)
                       IN  /\ 2 * (m * n - total) <= n
                           /\ 2 * (total - m * n) <= n

(* C19: only an admitted rate check changes the identity's timestamps, and it
   appends its own time to those still in the window; no later step of the
   request (cache hit, missing key, provider failure or success) removes it. *)
C19_AdmissionConsumesSlot ==
    [][ IF RateChecked
        THEN LastResult
             => rate_limit_tracker'[user_id]
                 = Append(SelectSeq(rate_limit_tracker[user_id],
                                    LAMBDA t : now - t <= RATE_LIMIT_WINDOW),
                          now)
        ELSE rate_limit_tracker' = rate_limit_tracker ]_vars

(* RATE_LIMIT requests were admitted within one window, the second of them
   served from the cache (one provider call, one log entry), and the next
   request in that window was denied. *)
C19_Witness ==
    /\ pc = "idle"
    /\ Len(admits) = RATE_LIMIT + 1
    /\ \A j \in 1..RATE_LIMIT : Admitted(j)
    /\ ~ Admitted(RATE_LIMIT + 1)
    /\ CallTime(RATE_LIMIT + 1) - CallTime(1) <= RATE_LIMIT_WINDOW
    /\ provider_calls = 1
    /\ Len(logs) = 1
    /\ IsSuccess(logs[1])
    /\ ui.kind = "warning_too_many_requests"
====
